---- MODULE Spec2Model ----
(***************************************************************************)
(* A model of maf2vcf.py: the value formatter vcf_format, the ordering     *)
(* utility order, the column classifier _fields_from_columns, the grouping *)
(* key _call_key, and the pipeline genotypes_to_file /                     *)
(* genotypes_to_records / _make_record_from_gt.                            *)
(*                                                                         *)
(* Python strings are sequences of one-character strings, so that split,   *)
(* strip, slicing and format are computed character by character.          *)
(* A Python value (None, str, int, float) or a raised exception is a       *)
(* record [t, s, n, d]: t the type tag, s the text of a str (or the name   *)
(* of the exception), n the value of an int, n/d the value of a float.     *)
(***************************************************************************)
EXTENDS Integers, Sequences, FiniteSets, TLC

(***************************************************************************)
(* Bounds of the model.                                                    *)
(***************************************************************************)
\* longest raw value handed to vcf_format in SpecFormat
MaxLen == 5
\* longest list of genotype relations handed to genotypes_to_file in Spec
MaxCalls == 3

(***************************************************************************)
(* Python values.                                                          *)
(***************************************************************************)
PyNone == [t |-> "None", s |-> <<>>, n |-> 0, d |-> 1]

PyStr(s) == [t |-> "str", s |-> s, n |-> 0, d |-> 1]

PyInt(n) == [t |-> "int", s |-> <<>>, n |-> n, d |-> 1]

PyFloat(n, d) == [t |-> "float", s |-> <<>>, n |-> n, d |-> d]

Raise(e) == [t |-> "raise", s |-> e, n |-> 0, d |-> 1]

(***************************************************************************)
(* str methods used by the program.                                        *)
(***************************************************************************)
Digits == <<"0", "1", "2", "3", "4", "5", "6", "7", "8", "9">>

IsDigit(c) == \E i \in 1..10 : Digits[i] = c

DigitValue(c) == (CHOOSE i \in 1..10 : Digits[i] = c) - 1

\* the characters str.strip() removes; the model's alphabets hold only " "
IsSpace(c) == c \in {" ", "\t", "\n", "\r"}

RECURSIVE LStrip(_)
LStrip(s) ==
  IF s # <<>> /\ IsSpace(Head(s)) THEN LStrip(Tail(s)) ELSE s

RECURSIVE RStrip(_)
RStrip(s) ==
  IF s # <<>> /\ IsSpace(s[Len(s)]) THEN RStrip(SubSeq(s, 1, Len(s) - 1)) ELSE s

\* str.strip()
Strip(s) == RStrip(LStrip(s))

\* the index of the first ch in s at or after i, or Len(s) + 1
RECURSIVE Find(_, _, _)
Find(s, ch, i) ==
  IF i > Len(s) \/ s[i] = ch THEN i ELSE Find(s, ch, i + 1)

\* str.split(ch): the pieces between the occurrences of ch, never empty
RECURSIVE Split(_, _)
Split(s, ch) ==
  LET k == Find(s, ch, 1)
  IN  IF k > Len(s) THEN <<s>>
      ELSE <<SubSeq(s, 1, k - 1)>> \o Split(SubSeq(s, k + 1, Len(s)), ch)

\* ch.join(pieces)
RECURSIVE Join(_, _)
Join(pieces, ch) ==
  IF pieces = <<>> THEN <<>>
  ELSE IF Len(pieces) = 1 THEN pieces[1]
  ELSE pieces[1] \o <<ch>> \o Join(Tail(pieces), ch)

\* str.startswith(prefix)
StartsWith(s, prefix) ==
  Len(s) >= Len(prefix) /\ SubSeq(s, 1, Len(prefix)) = prefix

\* s[k:], the slice from the 0-based index k
SliceFrom(s, k) == SubSeq(s, k + 1, Len(s))

(***************************************************************************)
(* int(val) and float(val) on a str: surrounding whitespace is ignored, a  *)
(* sign may lead, int takes decimal digits and float digits with at most   *)
(* one point.  The exponent, inf and nan forms of float are spelled with   *)
(* letters that no alphabet of the model holds.                            *)
(***************************************************************************)
IsSign(c) == c \in {"+", "-"}

Unsigned(s) == IF s # <<>> /\ IsSign(Head(s)) THEN Tail(s) ELSE s

Sign(s) == IF s # <<>> /\ Head(s) = "-" THEN -1 ELSE 1

AllDigits(s) == \A i \in 1..Len(s) : IsDigit(s[i])

RECURSIVE DigitsValue(_)
DigitsValue(s) ==
  IF s = <<>> THEN 0
  ELSE 10 * DigitsValue(SubSeq(s, 1, Len(s) - 1)) + DigitValue(s[Len(s)])

RECURSIVE Pow10(_)
Pow10(k) == IF k = 0 THEN 1 ELSE 10 * Pow10(k - 1)

IsIntLiteral(s) ==
  LET u == Unsigned(Strip(s)) IN u # <<>> /\ AllDigits(u)

IntValue(s) == Sign(Strip(s)) * DigitsValue(Unsigned(Strip(s)))

IsFloatLiteral(s) ==
  LET u == Unsigned(Strip(s))
      parts == Split(u, ".")
  IN  /\ Len(parts) <= 2
      /\ \A i \in 1..Len(parts) : AllDigits(parts[i])
      /\ \E i \in 1..Len(parts) : parts[i] # <<>>

FloatValue(s) ==
  LET u == Unsigned(Strip(s))
      parts == Split(u, ".")
      frac == IF Len(parts) = 2 THEN parts[2] ELSE <<>>
  IN  PyFloat(Sign(Strip(s)) * DigitsValue(parts[1] \o frac), Pow10(Len(frac)))

\* int(x) of a float x = n/d truncates towards zero
Trunc(n, d) == IF n >= 0 THEN n \div d ELSE -((-n) \div d)

(***************************************************************************)
(* vcf_format(val)                                                         *)
(***************************************************************************)
StripAll(vals) == [i \in 1..Len(vals) |-> Strip(vals[i])]

\* vcf_format with the second assertion left out
vcf_format_no_assert(val) ==
  IF val.t = "None" THEN PyStr(<<".">>)
  ELSE IF val.t = "int" THEN val
  ELSE IF val.t = "float" THEN PyInt(Trunc(val.n, val.d))
  ELSE IF IsIntLiteral(val.s) THEN PyInt(IntValue(val.s))
  ELSE IF IsFloatLiteral(val.s) THEN FloatValue(val.s)
  ELSE LET vals == Split(val.s, ",")
           joined == Join(StripAll(vals), ",")
       IN  IF Len(vals) <= 1 THEN val
           ELSE IF val.s[1] # "[" THEN PyStr(joined)
           ELSE PyStr(SubSeq(joined, 2, Len(joined) - 1))

vcf_format(val) ==
  IF val.t = "None" THEN PyStr(<<".">>)
  ELSE IF val.t = "int" THEN val
  ELSE IF val.t = "float" THEN PyInt(Trunc(val.n, val.d))
  ELSE IF IsIntLiteral(val.s) THEN PyInt(IntValue(val.s))
  ELSE IF IsFloatLiteral(val.s) THEN FloatValue(val.s)
  ELSE LET vals == Split(val.s, ",")
           joined == Join(StripAll(vals), ",")
       IN  IF Len(vals) <= 1 THEN val
           ELSE IF val.s[1] # "[" THEN PyStr(joined)
           ELSE IF val.s[Len(val.s)] # "]" THEN Raise("AssertionError")
           ELSE PyStr(SubSeq(joined, 2, Len(joined) - 1))

(***************************************************************************)
(* Column names and the inputs of the pipeline.                            *)
(***************************************************************************)
SamplePrefix == <<"s", "a", "m", "p", "l", "e", ":">>

InfoPrefix == <<"i", "n", "f", "o", ":">>

ColGT == SamplePrefix \o <<"G", "T">>

ColAD == SamplePrefix \o <<"A", "D">>

ColDP == InfoPrefix \o <<"D", "P">>

\* a column with neither prefix
ColOther == <<"q", "u", "a", "l">>

\* the header line of the __main__ example, split at the tabs
Header ==
  <<"#CHROM", "POS", "ID", "REF", "ALT", "QUAL", "FILTER", "INFO", "FORMAT",
    "NORMAL", "TUMOR">>

\* reader.samples: the columns of the header line after the nine fixed ones
ReaderSamples(header) == SubSeq(header, 10, Len(header))

Range(f) == { f[i] : i \in DOMAIN f }

SampleNames == {"NORMAL", "TUMOR", "UNKNOWN"}

\* the loci of the input calls; the first two differ in REF and ALT
Loci ==
  { [contig |-> <<"7">>, position |-> 100, reference |-> <<"G", "-">>,
     alternates |-> <<"A">>],
    [contig |-> <<"7">>, position |-> 100, reference |-> <<"G">>,
     alternates |-> <<"-", "A">>],
    [contig |-> <<"7">>, position |-> 200, reference |-> <<"T">>,
     alternates |-> <<"C", ",", "G">>] }

\* the remaining fields of the input calls
Payloads ==
  { [id |-> <<>>, quality |-> <<>>, filters |-> <<"P", "A", "S", "S">>,
     cols |-> (ColGT :> PyStr(<<"0", "/", "1">>)
               @@ ColAD :> PyStr(<<"[", "1", ",", " ", "2", "]">>)
               @@ ColDP :> PyStr(<<"1", "0">>)
               @@ ColOther :> PyNone)],
    [id |-> <<"r", "s", "1">>, quality |-> <<"5", "0">>, filters |-> <<>>,
     cols |-> (ColGT :> PyStr(<<"0", "/", "0">>)
               @@ ColAD :> PyStr(<<"3", ",", "4">>)
               @@ ColDP :> PyNone
               @@ ColOther :> PyNone)] }

\* what a call of the input may hold: every sample name of the header at
\* every locus with every payload, and the unknown name at every locus
CallInputs ==
  (Range(ReaderSamples(Header)) \X Loci \X Payloads)
    \cup ((SampleNames \ Range(ReaderSamples(Header))) \X Loci
            \X { p \in Payloads : p.id = <<>> })

\* a genotype relation; row is its place in the input list
GenotypeCall(name, locus, payload, row) ==
  [sample_name |-> name, contig |-> locus.contig, position |-> locus.position,
   reference |-> locus.reference, alternates |-> locus.alternates,
   id |-> payload.id, quality |-> payload.quality, filters |-> payload.filters,
   cols |-> payload.cols, row |-> row]

\* the lists of at most n genotype relations
RECURSIVE GenotypeLists(_)
GenotypeLists(n) ==
  IF n = 0 THEN {<<>>}
  ELSE LET shorter == GenotypeLists(n - 1)
       IN  shorter \cup
           { Append(g, GenotypeCall(c[1], c[2], c[3], Len(g) + 1)) :
               g \in { h \in shorter : Len(h) = n - 1 }, c \in CallInputs }

ExtantColumnLists == { <<ColGT>>, <<ColDP, ColGT, ColOther, ColAD>> }

\* the raw values of SpecFormat
Alphabet == {"[", "]", ",", " ", "A", "1", "."}

\* the strings of at most n characters
RECURSIVE Strings(_)
Strings(n) ==
  IF n = 0 THEN {<<>>}
  ELSE LET shorter == Strings(n - 1)
       IN  shorter \cup
           { Append(s, c) : s \in { r \in shorter : Len(r) = n - 1 },
                            c \in Alphabet }

RawValues(n) == {PyNone} \cup { PyStr(s) : s \in Strings(n) }

(***************************************************************************)
(* order(lst, ordering, key) with key a string: lookup is x[key].          *)
(* ordering becomes a dict from name to index (a repeated name keeps its   *)
(* last index); list.sort is stable and raises KeyError on a key that is   *)
(* not in the dict, leaving no result.                                     *)
(***************************************************************************)
OrderingIndex(ordering, name) ==
  CHOOSE i \in 1..Len(ordering) :
    ordering[i] = name /\ \A j \in (i + 1)..Len(ordering) : ordering[j] # name

\* x put behind every element of sorted whose index is not greater than its own
RECURSIVE InsertStable(_, _, _, _)
InsertStable(sorted, x, ordering, key) ==
  IF sorted = <<>> THEN <<x>>
  ELSE IF OrderingIndex(ordering, sorted[Len(sorted)][key])
            <= OrderingIndex(ordering, x[key])
       THEN Append(sorted, x)
       ELSE Append(InsertStable(SubSeq(sorted, 1, Len(sorted) - 1), x, ordering, key),
                   sorted[Len(sorted)])

RECURSIVE StableSort(_, _, _)
StableSort(lst, ordering, key) ==
  IF lst = <<>> THEN <<>>
  ELSE InsertStable(StableSort(SubSeq(lst, 1, Len(lst) - 1), ordering, key),
                    lst[Len(lst)], ordering, key)

\* order that never raises and leaves the list as it came
order_no_check(lst, ordering, key) == [err |-> "none", lst |-> lst]

\* order that checks the keys and leaves the list as it came
order_unsorted(lst, ordering, key) ==
  IF \E i \in 1..Len(lst) : lst[i][key] \notin Range(ordering)
  THEN [err |-> "KeyError", lst |-> <<>>]
  ELSE [err |-> "none", lst |-> lst]

order(lst, ordering, key) ==
  IF \E i \in 1..Len(lst) : lst[i][key] \notin Range(ordering)
  THEN [err |-> "KeyError", lst |-> <<>>]
  ELSE [err |-> "none", lst |-> StableSort(lst, ordering, key)]

(***************************************************************************)
(* _call_key(gt): '{}-{}-{}-{}'.format(contig, position, reference,        *)
(* alternates); the position is an int and is written in decimal.          *)
(***************************************************************************)
RECURSIVE IntToStr(_)
IntToStr(n) ==
  IF n < 10 THEN <<Digits[n + 1]>>
  ELSE IntToStr(n \div 10) \o <<Digits[(n % 10) + 1]>>

_call_key(gt) ==
  gt.contig \o <<"-">> \o IntToStr(gt.position) \o <<"-">> \o gt.reference
    \o <<"-">> \o gt.alternates

\* a grouping that closes every group after its first call
GroupEnd_single(gts, first, last) == first

\* itertools.groupby: the last index of the run of equal keys that starts at
\* first, scanned from last
RECURSIVE GroupEnd(_, _, _)
GroupEnd(gts, first, last) ==
  IF last < Len(gts) /\ _call_key(gts[last + 1]) = _call_key(gts[first])
  THEN GroupEnd(gts, first, last + 1)
  ELSE last

(***************************************************************************)
(* _fields_from_columns, _maybe_split, _make_record_from_gt                *)
(***************************************************************************)
IsSampleColumn(c) == StartsWith(c, SamplePrefix)

IsInfoColumn(c) == StartsWith(c, InfoPrefix)

StripPrefix(cols, k) == [i \in 1..Len(cols) |-> SliceFrom(cols[i], k)]

Reverse(q) == [i \in 1..Len(q) |-> q[Len(q) + 1 - i]]

\* _fields_from_columns that loses the order of the columns
_fields_unordered(columns) ==
  [format_fields |-> Reverse(StripPrefix(SelectSeq(columns, IsSampleColumn), 7)),
   info_fields |-> Reverse(StripPrefix(SelectSeq(columns, IsInfoColumn), 5))]

_fields_from_columns(columns) ==
  [format_fields |-> StripPrefix(SelectSeq(columns, IsSampleColumn), 7),
   info_fields |-> StripPrefix(SelectSeq(columns, IsInfoColumn), 5)]

\* None is [none |-> TRUE]; an empty string is falsy
_maybe_split(string, char) ==
  IF string # <<>> THEN [none |-> FALSE, l |-> Split(string, char)]
  ELSE [none |-> TRUE, l |-> <<>>]

_make_record_from_gt(genotype, info_fields, format_fields, samples) ==
  [CHROM |-> genotype.contig,
   POS |-> genotype.position,
   ID |-> genotype.id,
   REF |-> genotype.reference,
   ALT |-> _maybe_split(genotype.alternates, ","),
   QUAL |-> genotype.quality,
   FILTER |-> _maybe_split(genotype.filters, ","),
   INFO |-> [name \in Range(info_fields) |->
               vcf_format(genotype.cols[InfoPrefix \o name])],
   FORMAT |-> Join(format_fields, ":"),
   samples |-> samples]

(***************************************************************************)
(* The body of the loop of genotypes_to_records over one group: the calls  *)
(* of the group reordered, one _Call per call, and the record made from    *)
(* the first of the reordered calls.  A value that vcf_format rejects      *)
(* raises out of the loop.  row is carried along to tell the calls apart.  *)
(***************************************************************************)
CallOf(gt, format_fields) ==
  [sample |-> gt.sample_name,
   data |-> [k \in 1..Len(format_fields) |->
               vcf_format(gt.cols[SamplePrefix \o format_fields[k]])],
   row |-> gt.row]

\* CallsOf that keeps one call for each sample name
CallsOf_one_per_sample(gts, format_fields) ==
  LET keep == { i \in 1..Len(gts) :
                  \A j \in 1..(i - 1) : gts[j].sample_name # gts[i].sample_name }
      Kept(i) == i \in keep
      idx == SelectSeq([i \in 1..Len(gts) |-> i], Kept)
  IN  [k \in 1..Len(idx) |-> CallOf(gts[idx[k]], format_fields)]

CallsOf(gts, format_fields) ==
  [i \in 1..Len(gts) |-> CallOf(gts[i], format_fields)]

Raises(rec) ==
  \/ \E i \in 1..Len(rec.samples) :
       \E k \in 1..Len(rec.samples[i].data) : rec.samples[i].data[k].t = "raise"
  \/ \E name \in DOMAIN rec.INFO : rec.INFO[name].t = "raise"

\* GroupRecord that takes the record's fields from the first call as it came
GroupRecord_input_first(gts, sample_ordering, info_fields, format_fields) ==
  LET o == order(gts, sample_ordering, "sample_name")
      rec == _make_record_from_gt(gts[1], info_fields, format_fields,
                                  CallsOf(o.lst, format_fields))
  IN  IF o.err # "none" THEN [err |-> o.err, rec |-> <<>>]
      ELSE IF Raises(rec) THEN [err |-> "AssertionError", rec |-> <<>>]
      ELSE [err |-> "none", rec |-> <<rec>>]

GroupRecord(gts, sample_ordering, info_fields, format_fields) ==
  LET o == order(gts, sample_ordering, "sample_name")
      rec == _make_record_from_gt(o.lst[1], info_fields, format_fields,
                                  CallsOf(o.lst, format_fields))
  IN  IF o.err # "none" THEN [err |-> o.err, rec |-> <<>>]
      ELSE IF Raises(rec) THEN [err |-> "AssertionError", rec |-> <<>>]
      ELSE [err |-> "none", rec |-> <<rec>>]

(***************************************************************************)
(* The state: the arguments of genotypes_to_file, the locals of            *)
(* genotypes_to_file and genotypes_to_records, what has reached fd, and    *)
(* the state of one evaluation of vcf_format on a raw value and on its     *)
(* own result.                                                             *)
(***************************************************************************)
VARIABLES genotypes, extant_columns, pc, samples, fields, pos, records,
          returned, error, fd_header, fd_records, fd_pos,
          raw, fpc, out1, out2

vars == <<genotypes, extant_columns, pc, samples, fields, pos, records,
          returned, error, fd_header, fd_records, fd_pos,
          raw, fpc, out1, out2>>

pipeVars == <<genotypes, extant_columns, pc, samples, fields, pos, records,
              returned, error, fd_header, fd_records, fd_pos>>

fmtVars == <<raw, fpc, out1, out2>>

NoFields == [format_fields |-> <<>>, info_fields |-> <<>>]

PipeStart ==
  /\ pc = "start"
  /\ samples = <<>>
  /\ fields = NoFields
  /\ pos = 1
  /\ records = <<>>
  /\ returned = FALSE
  /\ error = "none"
  /\ fd_header = FALSE
  /\ fd_records = <<>>
  /\ fd_pos = 0

FmtStart ==
  /\ fpc = "start"
  /\ out1 = PyNone
  /\ out2 = PyNone

Init ==
  /\ genotypes = <<>>
  /\ extant_columns = <<>>
  /\ PipeStart
  /\ raw = PyNone
  /\ FmtStart

\* genotypes_to_file is called on a list of genotype relations and a list of
\* columns, and makes template = vcf.Reader(...) from the header
MakeTemplate ==
  /\ pc = "start"
  /\ genotypes' \in GenotypeLists(MaxCalls)
  /\ extant_columns' \in ExtantColumnLists
  /\ samples' = ReaderSamples(Header)
  /\ pc' = "classify"
  /\ UNCHANGED <<fields, pos, records, returned,
                 error, fd_header, fd_records, fd_pos>>
  /\ UNCHANGED fmtVars

\* genotypes_to_records up to its loop
Classify ==
  /\ pc = "classify"
  /\ fields' = _fields_from_columns(extant_columns)
  /\ records' = <<>>
  /\ pos' = 1
  /\ pc' = "grouping"
  /\ UNCHANGED <<genotypes, extant_columns, samples, returned, error,
                 fd_header, fd_records, fd_pos>>
  /\ UNCHANGED fmtVars

\* one iteration of the loop over the groups
GroupStep ==
  /\ pc = "grouping"
  /\ pos <= Len(genotypes)
  /\ LET last == GroupEnd(genotypes, pos, pos)
         r == GroupRecord(SubSeq(genotypes, pos, last), samples,
                          fields.info_fields, fields.format_fields)
     IN  IF r.err # "none"
         THEN /\ pc' = "failed"
              /\ error' = r.err
              /\ UNCHANGED <<pos, records>>
         ELSE /\ records' = records \o r.rec
              /\ pos' = last + 1
              /\ UNCHANGED <<pc, error>>
  /\ UNCHANGED <<genotypes, extant_columns, samples, fields, returned,
                 fd_header, fd_records, fd_pos>>
  /\ UNCHANGED fmtVars

\* return records
ReturnRecords ==
  /\ pc = "grouping"
  /\ pos > Len(genotypes)
  /\ returned' = TRUE
  /\ pc' = "writer"
  /\ UNCHANGED <<genotypes, extant_columns, samples, fields, pos, records,
                 error, fd_header, fd_records, fd_pos>>
  /\ UNCHANGED fmtVars

\* writer = vcf.Writer(fd, template), which writes the header
MakeWriter ==
  /\ pc = "writer"
  /\ fd_header' = TRUE
  /\ fd_pos' = fd_pos + 1
  /\ pc' = "writing"
  /\ UNCHANGED <<genotypes, extant_columns, samples, fields, pos, records,
                 returned, error, fd_records>>
  /\ UNCHANGED fmtVars

\* writer.write_record(record)
WriteRecord ==
  /\ pc = "writing"
  /\ Len(fd_records) < Len(records)
  /\ fd_records' = Append(fd_records, records[Len(fd_records) + 1])
  /\ fd_pos' = fd_pos + 1
  /\ UNCHANGED <<genotypes, extant_columns, pc, samples, fields, pos, records,
                 returned, error, fd_header>>
  /\ UNCHANGED fmtVars

\* fd.seek(0, 0)
Seek ==
  /\ pc = "writing"
  /\ Len(fd_records) = Len(records)
  /\ fd_pos' = 0
  /\ pc' = "done"
  /\ UNCHANGED <<genotypes, extant_columns, samples, fields, pos, records,
                 returned, error, fd_header, fd_records>>
  /\ UNCHANGED fmtVars

Next ==
  \/ MakeTemplate
  \/ Classify
  \/ GroupStep
  \/ ReturnRecords
  \/ MakeWriter
  \/ WriteRecord
  \/ Seek

Spec == Init /\ [][Next]_vars

(***************************************************************************)
(* vcf_format applied to a raw value, and then to its own result.          *)
(***************************************************************************)
InitFormat ==
  /\ genotypes = <<>>
  /\ extant_columns = <<>>
  /\ PipeStart
  /\ raw = PyNone
  /\ FmtStart

FormatOnce ==
  /\ fpc = "start"
  /\ raw' \in RawValues(MaxLen)
  /\ out1' = vcf_format(raw')
  /\ fpc' = IF out1'.t = "raise" THEN "raised" ELSE "once"
  /\ UNCHANGED out2
  /\ UNCHANGED pipeVars

FormatAgain ==
  /\ fpc = "once"
  /\ out2' = vcf_format(out1)
  /\ fpc' = IF out2'.t = "raise" THEN "raised again" ELSE "twice"
  /\ UNCHANGED <<raw, out1>>
  /\ UNCHANGED pipeVars

NextFormat ==
  \/ FormatOnce
  \/ FormatAgain

SpecFormat == InitFormat /\ [][NextFormat]_vars

(***************************************************************************)
(* Properties.                                                             *)
(***************************************************************************)
\* the locus of a call as a 4-tuple
Locus(gt) == <<gt.contig, gt.position, gt.reference, gt.alternates>>

\* the k-th smallest element of a set of numbers
Kth(S, k) == CHOOSE i \in S : Cardinality({ j \in S : j <= i }) = k

\* the places in the input of the calls of a record
Rows(rec) == { rec.samples[j].row : j \in 1..Len(rec.samples) }

\* the records that hold the call that came at place i
RecordsOfRow(i) == { k \in 1..Len(records) : i \in Rows(records[k]) }

SampleIndex(name) == OrderingIndex(ReaderSamples(Header), name)

UnknownSample ==
  \E i \in 1..Len(genotypes) :
    genotypes[i].sample_name \notin Range(ReaderSamples(Header))

\* genotypes_to_records has just returned records; no later step changes it
JustReturned == returned /\ pc = "writer"

\* C1: when genotypes_to_records returns, there is one record for each
\* maximal run of adjacent input calls with equal _call_key, the records come
\* in the order of the runs, and the calls of the k-th record are exactly the
\* calls of the k-th run.
C1_RunGrouping ==
  JustReturned =>
    LET n == Len(genotypes)
        starts == { i \in 1..n :
                      i = 1 \/ _call_key(genotypes[i]) # _call_key(genotypes[i - 1]) }
        count == Cardinality(starts)
    IN  /\ Len(records) = count
        /\ \A k \in 1..count :
             LET lo == Kth(starts, k)
                 hi == IF k = count THEN n ELSE Kth(starts, k + 1) - 1
             IN  /\ Rows(records[k]) = lo..hi
                 /\ Len(records[k].samples) = hi - lo + 1

\* one locus, interrupted by a call of another locus, has given two records
C1_Witness ==
  /\ JustReturned
  /\ Len(genotypes) = 3
  /\ Locus(genotypes[1]) = Locus(genotypes[3])
  /\ _call_key(genotypes[1]) # _call_key(genotypes[2])
  /\ Len(records) = 3
  /\ records[1].CHROM = records[3].CHROM
  /\ records[1].POS = records[3].POS
  /\ records[1].REF = records[3].REF
  /\ records[1].ALT = records[3].ALT

\* C2: in every record the calls come in non-decreasing order of the index of
\* their sample name in the sample ordering, and two calls of one record with
\* the same sample name come in their input order.
C2_SampleOrder ==
  \A k \in 1..Len(records) :
    LET sm == records[k].samples
    IN  \A a, b \in 1..Len(sm) :
          a < b =>
            /\ SampleIndex(sm[a].sample) <= SampleIndex(sm[b].sample)
            /\ sm[a].sample = sm[b].sample => sm[a].row < sm[b].row

\* a record of three calls that came as TUMOR, NORMAL, TUMOR
C2_Witness ==
  /\ JustReturned
  /\ \E k \in 1..Len(records) :
       LET sm == records[k].samples
       IN  /\ Len(sm) = 3
           /\ <<sm[1].sample, sm[2].sample, sm[3].sample>>
                = <<"NORMAL", "TUMOR", "TUMOR">>
           /\ <<sm[1].row, sm[2].row, sm[3].row>> = <<2, 1, 3>>

\* C3: when a call of the batch has a sample name that is not in the sample
\* ordering, genotypes_to_records never returns and nothing reaches fd: no
\* header, no record, and the batch does not complete.
C3_NoPartialOutput ==
  UnknownSample =>
    /\ ~returned
    /\ ~fd_header
    /\ fd_records = <<>>
    /\ fd_pos = 0
    /\ pc \notin {"writer", "writing", "done"}
    /\ pc = "failed" => error = "KeyError"

\* the batch has failed on an unknown sample in a later group, after records
\* were built for the earlier groups
C3_Witness ==
  /\ UnknownSample
  /\ pc = "failed"
  /\ error = "KeyError"
  /\ Len(records) >= 1
  /\ genotypes[1].sample_name # "UNKNOWN"

\* C7: in the records that genotypes_to_records returns, two adjacent input
\* calls are in the same record exactly when their (contig, position,
\* reference, alternates) 4-tuples are equal.
C7_TupleGrouping ==
  JustReturned =>
    \A i \in 1..(Len(genotypes) - 1) :
      (RecordsOfRow(i) = RecordsOfRow(i + 1))
        <=> (Locus(genotypes[i]) = Locus(genotypes[i + 1]))

\* C8: in the records that genotypes_to_records returns, FORMAT is the names of the 'sample:' columns, without the prefix, in
\* the order of extant_columns, joined by ':'; every call has one formatted
\* value for each of them in that order; the INFO keys are the names of the
\* 'info:' columns without the prefix; no other column contributes.
C8_Fields ==
  LET S == { i \in 1..Len(extant_columns) :
               StartsWith(extant_columns[i], SamplePrefix) }
      I == { i \in 1..Len(extant_columns) :
               StartsWith(extant_columns[i], InfoPrefix) }
      names == [k \in 1..Cardinality(S) |->
                  SubSeq(extant_columns[Kth(S, k)], 8,
                         Len(extant_columns[Kth(S, k)]))]
  IN  JustReturned =>
      \A r \in 1..Len(records) :
        /\ records[r].FORMAT = Join(names, ":")
        /\ \A j \in 1..Len(records[r].samples) :
             LET call == records[r].samples[j]
             IN  /\ Len(call.data) = Cardinality(S)
                 /\ \A k \in 1..Cardinality(S) :
                      call.data[k]
                        = vcf_format(genotypes[call.row].cols[extant_columns[Kth(S, k)]])
        /\ DOMAIN records[r].INFO
             = { SubSeq(extant_columns[i], 6, Len(extant_columns[i])) : i \in I }
        /\ Cardinality(DOMAIN records[r].INFO) + Cardinality(S)
             = Cardinality(S \cup I)

\* a record of a batch with two 'sample:' columns, one 'info:' column and one
\* column with neither prefix
C8_Witness ==
  /\ JustReturned
  /\ Len(records) >= 1
  /\ extant_columns = <<ColDP, ColGT, ColOther, ColAD>>

\* C9: the locus-level fields and INFO of every record that
\* genotypes_to_records returns are those of the call
\* of its group that comes first once the group is reordered: the call with
\* the least index in the sample ordering and, among those, the earliest in
\* the input.
C9_Representative ==
  JustReturned =>
  \A k \in 1..Len(records) :
    LET rows == Rows(records[k])
        best == CHOOSE i \in rows :
                  \A j \in rows :
                    \/ SampleIndex(genotypes[i].sample_name)
                         < SampleIndex(genotypes[j].sample_name)
                    \/ /\ SampleIndex(genotypes[i].sample_name)
                            = SampleIndex(genotypes[j].sample_name)
                       /\ i <= j
        gt == genotypes[best]
    IN  /\ records[k].CHROM = gt.contig
        /\ records[k].POS = gt.position
        /\ records[k].ID = gt.id
        /\ records[k].REF = gt.reference
        /\ records[k].ALT = _maybe_split(gt.alternates, ",")
        /\ records[k].QUAL = gt.quality
        /\ records[k].FILTER = _maybe_split(gt.filters, ",")
        /\ \A name \in DOMAIN records[k].INFO :
             records[k].INFO[name] = vcf_format(gt.cols[InfoPrefix \o name])

\* a record whose fields are not those of the first call of its group in the
\* input: TUMOR came before NORMAL with another ID, QUAL, FILTER and INFO
C9_Witness ==
  /\ JustReturned
  /\ extant_columns = <<ColDP, ColGT, ColOther, ColAD>>
  /\ \E k \in 1..Len(records) :
       LET first == genotypes[Kth(Rows(records[k]), 1)]
       IN  /\ first.sample_name = "TUMOR"
           /\ records[k].samples[1].sample = "NORMAL"
           /\ records[k].ID # first.id
           /\ records[k].QUAL # first.quality
           /\ records[k].FILTER # _maybe_split(first.filters, ",")
           /\ records[k].INFO # [name \in DOMAIN records[k].INFO |->
                                   vcf_format(first.cols[InfoPrefix \o name])]

RECURSIVE SampleCount(_)
SampleCount(recs) ==
  IF recs = <<>> THEN 0
  ELSE Len(recs[1].samples) + SampleCount(Tail(recs))

\* C10: when genotypes_to_records returns, every input call is one
\* sample call of exactly one record, the sample counts of the records add up
\* to the number of input calls, no record is without a call, and an empty
\* input has given no record.
C10_Conservation ==
  JustReturned =>
    /\ \A i \in 1..Len(genotypes) :
         /\ Cardinality(RecordsOfRow(i)) = 1
         /\ \A k \in RecordsOfRow(i) :
              Cardinality({ j \in 1..Len(records[k].samples) :
                              records[k].samples[j].row = i }) = 1
    /\ \A k \in 1..Len(records) :
         /\ Len(records[k].samples) >= 1
         /\ Rows(records[k]) \subseteq 1..Len(genotypes)
         /\ \A j \in 1..Len(records[k].samples) :
              records[k].samples[j].sample
                = genotypes[records[k].samples[j].row].sample_name
    /\ SampleCount(records) = Len(genotypes)
    /\ genotypes = <<>> => records = <<>>

\* three calls, two of them of one sample at one locus, have given two records
C10_Witness ==
  /\ JustReturned
  /\ Len(genotypes) = 3
  /\ Len(records) = 2
  /\ genotypes[1].sample_name = genotypes[2].sample_name
  /\ Len(records[1].samples) = 2

(***************************************************************************)
(* Properties of vcf_format, under SpecFormat.                             *)
(***************************************************************************)
OpensBracket(val) == val.t = "str" /\ val.s # <<>> /\ val.s[1] = "["

ClosesBracket(val) == val.t = "str" /\ val.s # <<>> /\ val.s[Len(val.s)] = "]"

Formatted == fpc # "start"

\* C4 as stated: a raw value that starts with '[' and does not end with ']'
\* is never given a result.
C4_Malformed ==
  (Formatted /\ OpensBracket(raw) /\ ~ClosesBracket(raw)) => out1.t = "raise"

\* C4, amended: a raw value with at least one comma that starts with '[' and
\* does not end with ']' raises AssertionError and is given no result; one
\* with no comma that starts with '[' is returned unchanged, whether or not
\* it ends with ']'.
C4_MalformedList ==
  (Formatted /\ OpensBracket(raw)) =>
    IF Len(Split(raw.s, ",")) >= 2
    THEN ~ClosesBracket(raw) <=> (out1 = Raise("AssertionError") /\ fpc = "raised")
    ELSE out1 = raw

\* a list that opens with '[' and does not close has been rejected
C4_Witness ==
  /\ fpc = "raised"
  /\ OpensBracket(raw)
  /\ ~ClosesBracket(raw)
  /\ Len(Split(raw.s, ",")) = 2

\* the cascade of the specification: for a bracketed list the brackets are
\* removed first, then every piece is trimmed, then the pieces are rejoined
FormatCascade(val) ==
  IF val.t = "None" THEN PyStr(<<".">>)
  ELSE IF IsIntLiteral(val.s) THEN PyInt(IntValue(val.s))
  ELSE IF IsFloatLiteral(val.s) THEN FloatValue(val.s)
  ELSE LET vals == Split(val.s, ",")
       IN  IF Len(vals) <= 1 THEN val
           ELSE IF ~OpensBracket(val) THEN PyStr(Join(StripAll(vals), ","))
           ELSE IF ~ClosesBracket(val) THEN Raise("AssertionError")
           ELSE PyStr(Join(StripAll(Split(SubSeq(val.s, 2, Len(val.s) - 1), ",")),
                           ","))

\* C5: the result of vcf_format is the result of the cascade, for every raw
\* value.
C5_Cascade == Formatted => out1 = FormatCascade(raw)

\* C6: for a raw string that is not numeric and that vcf_format accepts,
\* vcf_format accepts its own result and returns it unchanged.
C6_Idempotent ==
  (raw.t = "str" /\ out1.t = "str" /\ fpc \in {"twice", "raised again"}) =>
    (fpc = "twice" /\ out2 = out1)

====
